---- MODULE Spec2Model ----
(***************************************************************************)
(* A model of io_scene_dts/import_dts.py: the DTS shape importer.          *)
(*                                                                         *)
(*   import_material  one engine material -> one host material handle      *)
(*   create_bmesh     one DTS mesh -> one host mesh (faces, material slots)*)
(*   load             the import driver: materials, IFL properties, the    *)
(*                    NodeOrder text, the node empties, the mesh objects   *)
(*                    and their detail-level groups                        *)
(*                                                                         *)
(* Python subscripts are 0-based and TLA+ sequences 1-based: At(s, i) is   *)
(* the Python s[i].  Bit masks are modelled as sets of flag names, so that *)
(* `a & b` is the intersection, `a | b` the union and truthiness is        *)
(* non-emptiness.  A material descriptor is identified by its index in     *)
(* shape.materials (the code keys its dictionaries by object identity).    *)
(* The host (bpy) is modelled by the registries the code writes to.        *)
(* Not modelled: vertex, normal and UV buffers, node locations and         *)
(* rotations, the hide flag, the debug report, and what the host's         *)
(* me.validate() does to a mesh after create_bmesh has filled it.          *)
(***************************************************************************)
EXTENDS Integers, Sequences, FiniteSets, TLC

VARIABLES
    dmesh,      \* create_bmesh: its argument, [indices, primitives]
    me,         \* create_bmesh: what it produced, [status, faces, materials, polygons]
    mat_arg,    \* import_material: its arguments, [dmat, env]
    mat_ret,    \* import_material: how it ended and the material it made
    shape,      \* load: the DtsShape read from the file
    node_mode,  \* load: its node_mode argument
    pc,         \* load: the section it is in, or stopped in
    result,     \* load: "" while running, "FINISHED", or the exception raised
    bpy,        \* the host: [materials, meshes, texts, objects, groups]
    pre,        \* the host as it was when load was called
    loc         \* load: its locals, [materials, lod_by_mesh, node_obs]

meshVars == <<dmesh, me>>
matVars == <<mat_arg, mat_ret>>
loadVars == <<shape, node_mode, pc, result, bpy, pre, loc>>
vars == <<dmesh, me, mat_arg, mat_ret, shape, node_mode, pc, result, bpy, pre, loc>>

\* ---------------------------------------------------------------- bounds
MaxElements == 12   \* largest numElements of a single primitive
MaxFirst == 2       \* largest firstElement of a single primitive
MaxPrims == 3       \* most primitives in a mesh of several primitives
NumMaterials == 2   \* descriptors in shape.materials when create_bmesh runs alone
MaxDirs == 2        \* directories from the shape file's up to the top one
MaxMaterials == 2   \* most materials of a shape
MaxIfl == 2         \* most IFL entries of a shape
MaxNodes == 3       \* most nodes of a shape
MaxObjects == 2     \* most objects of a shape
MaxMeshes == 3      \* most meshes of a shape, over all its objects
MaxLods == 2        \* most detail levels of a shape

\* ---------------------------------------------------------------- helpers
At(s, i) == s[i + 1]

\* Python's range(start, stop, step) as a sequence, step > 0.
PyRange(start, stop, step) ==
    IF stop <= start THEN <<>>
    ELSE [k \in 1..((stop - start + step - 1) \div step) |-> start + (k - 1) * step]

RECURSIVE Flatten(_)
Flatten(ss) == IF ss = <<>> THEN <<>> ELSE Head(ss) \o Flatten(Tail(ss))

\* dmat = None
None == -1

\* ---------------------------------------------------------------- import_material
texture_extensions == <<"png", "jpg">>

\* default_materials, as the 0..255 colours the table is written in (the
\* module-level loop then divides every channel by 255).
default_materials ==
    [black |-> <<0, 0, 0>>, black25 |-> <<191, 191, 191>>,
     black50 |-> <<128, 128, 128>>, black75 |-> <<64, 64, 64>>,
     blank |-> <<255, 255, 255>>, blue |-> <<0, 0, 255>>,
     darkRed |-> <<128, 0, 0>>, gray25 |-> <<64, 64, 64>>,
     gray50 |-> <<128, 128, 128>>, gray75 |-> <<191, 191, 191>>,
     green |-> <<26, 128, 64>>, lightBlue |-> <<10, 186, 245>>,
     lightYellow |-> <<249, 249, 99>>, palegreen |-> <<125, 136, 104>>,
     red |-> <<213, 0, 0>>, white |-> <<255, 255, 255>>,
     yellow |-> <<255, 255, 0>>]

\* The `for extension in texture_extensions` loop in one directory:
\* the first extension whose file exists, or "" when none does.
RECURSIVE FirstExtension(_, _)
FirstExtension(files, exts) ==
    IF exts = <<>> THEN ""
    ELSE IF Head(exts) \in files THEN Head(exts)
    ELSE FirstExtension(files, Tail(exts))

\* The `while True` search.  dirs[1] is the directory of the shape file, dirs[k+1]
\* the parent of dirs[k], and the last one is its own parent.  Each directory is
\* [files, mount]: the extensions for which <name>.<ext> exists there, and
\* os.path.ismount.
RECURSIVE TextureSearch(_, _)
TextureSearch(dirs, k) ==
    LET ext == FirstExtension(dirs[k].files, texture_extensions)
        found_tex == ext # ""
    IN IF found_tex \/ dirs[k].mount
       THEN [found_tex |-> found_tex, dir |-> k, extension |-> ext]
       ELSE IF k = Len(dirs)
       THEN [found_tex |-> FALSE, dir |-> k, extension |-> ext]
       ELSE TextureSearch(dirs, k + 1)

\* The if/elif chain that sets bmat["blendMode"]; "" stands for "not set".
BlendMode(flags) ==
    IF flags \cap ({"Additive"} \cup {"Subtractive"}) # {} THEN "both"
    ELSE IF flags \cap {"Additive"} # {} THEN "additive"
    ELSE IF flags \cap {"Subtractive"} # {} THEN "subtractive"
    ELSE IF flags \cap {"Translucent"} # {} THEN "none"
    ELSE ""

\* The custom properties written after the blend mode: a property is a
\* key of the result exactly when the code sets it.
FlagProperties(flags) ==
    LET on(cond, key) == IF cond THEN {key} ELSE {}
    IN [key \in on(BlendMode(flags) # "", "blendMode")
                  \cup on(flags \cap {"SWrap"} = {}, "noSWrap")
                  \cup on(flags \cap {"TWrap"} = {}, "noTWrap")
                  \cup on(flags \cap {"NeverEnvMap"} = {}, "envMap")
                  \cup on(flags \cap {"NoMipMap"} = {}, "mipMap")
                  \cup on(flags \cap {"IFLMaterial"} # {}, "ifl")
        |-> IF key = "blendMode" THEN BlendMode(flags) ELSE "True"]

\* import_material(dmat, filepath).  env is what the call finds outside the
\* program: env.dirs (see TextureSearch), env.loadable (whether
\* bpy.data.images.load succeeds) and env.random (the three random() draws).
\* A texture slot is [image, texname]: whether tex.image was assigned, and the
\* directory and extension of the file found.
\* The result is the material created by bpy.data.materials.new, as far as the
\* call got, and how the call ended: when the image does not load, the except
\* clause prints and `tex.image = teximg` then reads a local that was never
\* bound, which raises UnboundLocalError after the texture slot was added.
import_material(dmat, env) ==
    LET search == TextureSearch(env.dirs, 1)
        base == [name |-> dmat.name,
                 texture_slots |-> <<>>,
                 diffuse_color |-> [kind |-> "host", rgb |-> <<>>],
                 use_shadeless |-> FALSE,
                 use_transparency |-> FALSE,
                 props |-> <<>>]
    IN IF search.found_tex /\ ~env.loadable
       THEN [status |-> "UnboundLocalError",
             bmat |-> [base EXCEPT !.texture_slots =
                          <<[image |-> FALSE, texname |-> <<search.dir, search.extension>>]>>]]
       ELSE [status |-> "ok",
             bmat |->
               [name |-> dmat.name,
                texture_slots |->
                    IF search.found_tex
                    THEN <<[image |-> TRUE, texname |-> <<search.dir, search.extension>>]>>
                    ELSE <<>>,
                diffuse_color |->
                    IF search.found_tex THEN [kind |-> "host", rgb |-> <<>>]
                    ELSE IF dmat.name \in DOMAIN default_materials
                    THEN [kind |-> "table", rgb |-> default_materials[dmat.name]]
                    ELSE [kind |-> "random", rgb |-> env.random],
                use_shadeless |-> dmat.flags \cap {"SelfIlluminating"} # {},
                use_transparency |-> dmat.flags \cap {"Translucent"} # {},
                props |-> FlagProperties(dmat.flags)]]

\* ---------------------------------------------------------------- create_bmesh
\* One Strip triangle: `even` is the loop's flag at step i.
StripTriangleNoAlternation(indices, i, even) ==
    <<At(indices, i), At(indices, i - 1), At(indices, i - 2)>>

StripTriangle(indices, i, even) ==
    IF even
    THEN <<At(indices, i), At(indices, i - 1), At(indices, i - 2)>>
    ELSE <<At(indices, i - 2), At(indices, i - 1), At(indices, i)>>

\* One Fan triangle: the pivot is read at subscript 0 of the index buffer.
FanTriangle(indices, i, even) ==
    IF even
    THEN <<At(indices, i), At(indices, i - 1), At(indices, 0)>>
    ELSE <<At(indices, 0), At(indices, i - 1), At(indices, i)>>

ListTriangle(indices, i) ==
    <<At(indices, i), At(indices, i - 1), At(indices, i - 2)>>

\* The values of i a Strip or Fan loop visits.
StripRange(prim) ==
    PyRange(prim.firstElement + 2, prim.firstElement + prim.numElements, 1)

ListRangeEveryElement(prim) ==
    PyRange(prim.firstElement + 2, prim.firstElement + prim.numElements, 1)

\* The values of i the TriangleList loop visits.
ListRange(prim) ==
    PyRange(prim.firstElement + 2, prim.firstElement + prim.numElements, 3)

\* `even` starts True and is negated after every step.
EvenAt(k) == k % 2 = 1

\* The faces one primitive appends, each (verts, dmat).
PrimFaces(indices, prim, dmat) ==
    IF prim.type \cap {"Strip"} # {}
    THEN [k \in 1..Len(StripRange(prim)) |->
            [verts |-> StripTriangle(indices, StripRange(prim)[k], EvenAt(k)),
             dmat |-> dmat]]
    ELSE IF prim.type \cap {"Fan"} # {}
    THEN [k \in 1..Len(StripRange(prim)) |->
            [verts |-> FanTriangle(indices, StripRange(prim)[k], EvenAt(k)),
             dmat |-> dmat]]
    ELSE [k \in 1..Len(ListRange(prim)) |->
            [verts |-> ListTriangle(indices, ListRange(prim)[k]), dmat |-> dmat]]

\* dmat of a primitive: None, or shape.materials[type & MaterialMask].
PrimMaterial(prim) ==
    IF prim.type \cap {"NoMaterial"} = {} THEN prim.material ELSE None

\* The body of `for prim in dmesh.primitives` applied to the loop's state
\* acc = [failed, faces, material_indices, materials].
PrimStep(acc, indices, prim, materials) ==
    IF acc.failed THEN acc
    ELSE IF prim.type \cap {"Indexed"} = {} THEN [acc EXCEPT !.failed = TRUE]
    ELSE LET dmat == PrimMaterial(prim)
             fresh == dmat # None /\ dmat \notin DOMAIN acc.material_indices
         IN [failed |-> FALSE,
             faces |-> acc.faces \o PrimFaces(indices, prim, dmat),
             material_indices |->
                IF fresh
                THEN acc.material_indices @@ (dmat :> Len(acc.materials))
                ELSE acc.material_indices,
             materials |->
                IF fresh THEN Append(acc.materials, materials[dmat])
                ELSE acc.materials]

RECURSIVE PrimLoop(_, _, _, _)
PrimLoop(acc, indices, prims, materials) ==
    IF prims = <<>> THEN acc
    ELSE PrimLoop(PrimStep(acc, indices, Head(prims), materials),
                  indices, Tail(prims), materials)

\* me.polygons.add(n): every new polygon has the host's default material_index, 0.
NewPolygon == [vertices |-> <<>>, material_index |-> 0]

\* The body of `for i, ((verts, dmat), poly) in enumerate(zip(faces, me.polygons))`.
\* `if dmat:` is object truthiness: any material descriptor passes, None does not.
FillPolygon(poly, face, material_indices) ==
    [vertices |-> face.verts,
     material_index |->
        IF face.dmat # None THEN material_indices[face.dmat]
        ELSE poly.material_index]

create_bmesh(mesh, materials) ==
    LET acc == PrimLoop([failed |-> FALSE, faces |-> <<>>,
                         material_indices |-> <<>>, materials |-> <<>>],
                        mesh.indices, mesh.primitives, materials)
    IN IF acc.failed
       THEN [status |-> "AssertionError", faces |-> <<>>, materials |-> <<>>,
             polygons |-> <<>>]
       ELSE [status |-> "ok",
             faces |-> acc.faces,
             materials |-> acc.materials,
             polygons |-> [i \in 1..Len(acc.faces) |->
                             FillPolygon(NewPolygon, acc.faces[i],
                                         acc.material_indices)]]

\* ---------------------------------------------------------------- load
\* Python's s[i] on a list: a negative subscript counts from the end.
PyIndexOk(s, i) == -Len(s) <= i /\ i < Len(s)
PyAt(s, i) == IF i >= 0 THEN s[i + 1] ELSE s[Len(s) + i + 1]

\* bpy.data.objects.new(name, data): an object is known by its position in
\* bpy.objects; `scene` says whether context.scene.objects.link was called.
NewObject(name, data) ==
    [name |-> name, data |-> data, parent |-> None, scene |-> FALSE]

\* Every loop of load is a fold of its body over st = [bpy, loc, result];
\* result is "" until an exception is raised, and a raised exception ends
\* the loop with what was done so far.

\* materials[dmat] = import_material(dmat, filepath), for the dmat at index k.
MaterialBody(st, sh, k) ==
    IF st.result # "" THEN st
    ELSE LET r == import_material(At(sh.materials, k), At(sh.materials, k).env)
             registered == [st.bpy EXCEPT !.materials = Append(@, r.bmat)]
         IN IF r.status # "ok"
            THEN [st EXCEPT !.bpy = registered, !.result = r.status]
            ELSE [st EXCEPT !.bpy = registered,
                            !.loc.materials = @ @@ (k :> Len(registered.materials))]

\* The body of `for ifl in shape.iflmaterials`.  Reading mat["ifl"] on a
\* material that has no such property raises KeyError.
IflBodyUnchecked(st, sh, ifl) ==
    IF st.result # "" THEN st
    ELSE LET mat == st.loc.materials[ifl.slot]
         IN [st EXCEPT !.bpy.materials[mat].props =
                ("iflName" :> At(sh.names, ifl.name)) @@
                ("iflFirstFrame" :> ifl.firstFrame) @@
                ("iflNumFrames" :> ifl.numFrames) @@
                ("iflTime" :> ifl.time) @@ @]

IflBody(st, sh, ifl) ==
    IF st.result # "" THEN st
    ELSE LET mat == st.loc.materials[ifl.slot]
             props == st.bpy.materials[mat].props
         IN IF "ifl" \notin DOMAIN props THEN [st EXCEPT !.result = "KeyError"]
            ELSE IF props["ifl"] # "True" THEN [st EXCEPT !.result = "AssertionError"]
            ELSE [st EXCEPT !.bpy.materials[mat].props =
                    ("iflName" :> At(sh.names, ifl.name)) @@
                    ("iflFirstFrame" :> ifl.firstFrame) @@
                    ("iflNumFrames" :> ifl.numFrames) @@
                    ("iflTime" :> ifl.time) @@ @]

\* lod_by_mesh[lod.objectDetail] = lod
LodBody(st, lod) ==
    [st EXCEPT !.loc.lod_by_mesh = (lod.objectDetail :> lod) @@ @]

\* The NodeOrder text: looked up or created, then overwritten with the node
\* names in shape order (kept as the sequence that "\n".join joins).
NodeOrderText(st, sh) ==
    LET texts == IF "NodeOrder" \in DOMAIN st.bpy.texts THEN st.bpy.texts
                 ELSE ("NodeOrder" :> <<>>) @@ st.bpy.texts
    IN [st EXCEPT !.bpy.texts =
            [texts EXCEPT !["NodeOrder"] =
                [n \in 1..Len(sh.nodes) |-> At(sh.names, sh.nodes[n].name)]]]

NodeParentLast(node_obs, node) == PyAt(node_obs, -1)

\* ob.parent = node_obs[node.parent]
NodeParent(node_obs, node) == PyAt(node_obs, node.parent)

\* The body of `for i, node in enumerate(shape.nodes)` in EMPTY mode.  The
\* object exists in bpy.data.objects before its parent is looked up; it is
\* linked to the scene and appended to node_obs after.
NodeBody(st, sh, node) ==
    IF st.result # "" THEN st
    ELSE LET created == [st.bpy EXCEPT !.objects =
                            Append(@, NewObject(At(sh.names, node.name), None))]
             ob == Len(created.objects)
         IN IF node.parent # -1 /\ ~PyIndexOk(st.loc.node_obs, node.parent)
            THEN [st EXCEPT !.bpy = created, !.result = "IndexError"]
            ELSE [st EXCEPT
                    !.bpy = [created EXCEPT !.objects[ob] =
                                [@ EXCEPT !.scene = TRUE,
                                          !.parent =
                                             IF node.parent # -1
                                             THEN NodeParent(st.loc.node_obs, node)
                                             ELSE None]],
                    !.loc.node_obs = Append(@, ob)]

\* if lod_name not in bpy.data.groups: bpy.data.groups.new(lod_name)
\* bpy.data.groups[lod_name].objects.link(bobj)
GroupLink(groups, lod_name, bobj) ==
    LET known == IF \E g \in 1..Len(groups) : groups[g].name = lod_name THEN groups
                 ELSE Append(groups, [name |-> lod_name, objects |-> <<>>])
        g == CHOOSE g \in 1..Len(known) :
                /\ known[g].name = lod_name
                /\ \A h \in 1..(g - 1) : known[h].name # lod_name
    IN [known EXCEPT ![g].objects = Append(@, bobj)]

SkippedOnlyNull(mesh) == mesh.type = "Null"

\* The two `continue` tests on mesh.type.
Skipped(mesh) == mesh.type = "Null" \/ mesh.type # "Standard"

\* The body of `for meshIndex in range(obj.numMeshes)`.  create_bmesh registers
\* its mesh with bpy.data.meshes.new before it looks at the primitives.
ObjectBody(st, sh, obj, meshIndex) ==
    IF st.result # "" THEN st
    ELSE IF ~PyIndexOk(sh.meshes, obj.firstMesh + meshIndex)
    THEN [st EXCEPT !.result = "IndexError"]
    ELSE LET mesh == PyAt(sh.meshes, obj.firstMesh + meshIndex)
             bmesh == create_bmesh(mesh, st.loc.materials)
             meshed == [st.bpy EXCEPT !.meshes = Append(@, bmesh)]
             created == [meshed EXCEPT !.objects =
                            Append(@, [NewObject(At(sh.names, obj.name),
                                                 Len(meshed.meshes))
                                       EXCEPT !.scene = TRUE])]
             bobj == Len(created.objects)
             parented == IF obj.node = -1 THEN created
                         ELSE [created EXCEPT !.objects[bobj].parent =
                                  PyAt(st.loc.node_obs, obj.node)]
         IN IF Skipped(mesh) THEN st
            ELSE IF bmesh.status # "ok"
            THEN [st EXCEPT !.bpy = meshed, !.result = bmesh.status]
            ELSE IF obj.node # -1 /\ ~PyIndexOk(st.loc.node_obs, obj.node)
            THEN [st EXCEPT !.bpy = created, !.result = "IndexError"]
            ELSE IF meshIndex \notin DOMAIN st.loc.lod_by_mesh
            THEN [st EXCEPT !.bpy = parented, !.result = "KeyError"]
            ELSE [st EXCEPT !.bpy =
                    [parented EXCEPT !.groups =
                        GroupLink(@, At(sh.names, st.loc.lod_by_mesh[meshIndex].name),
                                  bobj)]]

RECURSIVE MaterialLoop(_, _, _)
MaterialLoop(st, sh, k) ==
    IF k >= Len(sh.materials) THEN st
    ELSE MaterialLoop(MaterialBody(st, sh, k), sh, k + 1)

RECURSIVE IflLoop(_, _, _)
IflLoop(st, sh, k) ==
    IF k >= Len(sh.iflmaterials) THEN st
    ELSE IflLoop(IflBody(st, sh, At(sh.iflmaterials, k)), sh, k + 1)

RECURSIVE LodLoop(_, _, _)
LodLoop(st, sh, k) ==
    IF k >= Len(sh.detail_levels) THEN st
    ELSE LodLoop(LodBody(st, At(sh.detail_levels, k)), sh, k + 1)

RECURSIVE NodeLoop(_, _, _)
NodeLoop(st, sh, i) ==
    IF i >= Len(sh.nodes) THEN st
    ELSE NodeLoop(NodeBody(st, sh, At(sh.nodes, i)), sh, i + 1)

RECURSIVE MeshLoop(_, _, _, _)
MeshLoop(st, sh, obj, meshIndex) ==
    IF meshIndex >= obj.numMeshes THEN st
    ELSE MeshLoop(ObjectBody(st, sh, obj, meshIndex), sh, obj, meshIndex + 1)

RECURSIVE ObjectLoop(_, _, _)
ObjectLoop(st, sh, o) ==
    IF o >= Len(sh.objects) THEN st
    ELSE ObjectLoop(MeshLoop(st, sh, At(sh.objects, o), 0), sh, o + 1)

\* One section of load has run from the current state and ended in st:
\* load goes on to `next`, or stops where it is with the exception raised.
Section(st, next) ==
    /\ bpy' = st.bpy
    /\ loc' = st.loc
    /\ result' = st.result
    /\ pc' = IF st.result = "" THEN next ELSE pc
    /\ UNCHANGED <<shape, node_mode, pre, meshVars, matVars>>

Running(section) == pc = section /\ result = ""
Now == [bpy |-> bpy, loc |-> loc, result |-> ""]

\* # Create a Blender material for each DTS material
LoadMaterials ==
    /\ Running("materials")
    /\ Section(MaterialLoop(Now, shape, 0), "ifl")

\* # Now assign IFL material properties where needed
LoadIfl ==
    /\ Running("ifl")
    /\ Section(IflLoop(Now, shape, 0), "nodeorder")

\* lod_by_mesh and the NodeOrder text
LoadNodeOrder ==
    /\ Running("nodeorder")
    /\ Section(NodeOrderText(LodLoop(Now, shape, 0), shape), "nodes")

\* node_obs: built in EMPTY mode, left empty in ARMATURE and BONE mode
LoadNodes ==
    /\ Running("nodes")
    /\ Section(IF node_mode = "EMPTY" THEN NodeLoop(Now, shape, 0) ELSE Now, "objects")

\* # Then put objects in the armatures
\* # Then put objects in the armatures; return {"FINISHED"}
LoadObjects ==
    /\ Running("objects")
    /\ LET st == ObjectLoop(Now, shape, 0)
       IN /\ bpy' = st.bpy
          /\ loc' = st.loc
          /\ result' = IF st.result = "" THEN "FINISHED" ELSE st.result
          /\ pc' = IF st.result = "" THEN "done" ELSE pc
    /\ UNCHANGED <<shape, node_mode, pre, meshVars, matVars>>

\* ---------------------------------------------------------------- mesh inputs
Identity(n) == [p \in 1..n |-> p - 1]
Reversed(n) == [p \in 1..n |-> n - p]

\* The index buffer of the worked Strip and Fan examples.
ExampleIndices == <<0, 1, 2, 3, 4>>

IndexBuffers ==
    {ExampleIndices, Identity(MaxFirst + MaxElements), Reversed(MaxFirst + MaxElements)}

\* The material part of prim.type: the NoMaterial bit, or a slot in the low bits.
MaterialChoices ==
    {[bits |-> {"NoMaterial"}, material |-> 0]}
        \cup {[bits |-> {}, material |-> m] : m \in 0..(NumMaterials - 1)}

PrimOf(bits, mc, first, n) ==
    [type |-> bits \cup mc.bits, material |-> mc.material,
     firstElement |-> first, numElements |-> n]

\* Every draw mode (also both mode bits at once), with and without Indexed,
\* over every range that lies inside the index buffer.
AnyPrims(indices) ==
    {p \in {PrimOf(mode \cup ix, mc, first, n) :
                mode \in SUBSET {"Strip", "Fan"}, ix \in SUBSET {"Indexed"},
                mc \in MaterialChoices,
                first \in 0..MaxFirst, n \in 0..MaxElements} :
        p.firstElement + p.numElements <= Len(indices)}

\* Indexed primitives of one or two triangles each, for meshes of several.
SmallPrims ==
    {PrimOf({"Indexed"} \cup mode, mc, 0, n) :
        mode \in {{}, {"Strip"}}, mc \in MaterialChoices, n \in {3, 4}}

SeqsUpTo(S, n) == UNION {[1..k -> S] : k \in 0..n}

NotRun == [status |-> "none", faces |-> <<>>, materials |-> <<>>, polygons |-> <<>>]

MeshIdle == dmesh = [indices |-> <<>>, primitives |-> <<>>] /\ me = NotRun

LoadIdle ==
    /\ shape = <<>>
    /\ node_mode = ""
    /\ pc = "idle"
    /\ result = ""
    /\ bpy = <<>>
    /\ pre = <<>>
    /\ loc = <<>>

\* The `materials` dictionary handed to create_bmesh: descriptor -> handle.
MeshMaterials == [m \in 0..(NumMaterials - 1) |-> [handle |-> m]]

\* ---------------------------------------------------------------- material inputs
MaterialFlags ==
    {"SelfIlluminating", "Translucent", "Additive", "Subtractive", "SWrap", "TWrap",
     "NeverEnvMap", "NoMipMap", "IFLMaterial"}

\* One name of the default colour table and one outside it.
MaterialNames == {"red", "oak"}

DirChoices == [files : SUBSET {"png", "jpg"}, mount : BOOLEAN]

RandomDraws == {<<0, 0, 0>>, <<25, 50, 75>>}

SeqsFromTo(S, lo, hi) == UNION {[1..k -> S] : k \in lo..hi}

\* No texture file; a texture file that loads; a texture file that does not.
NoTexture ==
    [dirs |-> <<[files |-> {}, mount |-> TRUE]>>, loadable |-> TRUE,
     random |-> <<25, 50, 75>>]
GoodTexture == [NoTexture EXCEPT !.dirs = <<[files |-> {"png"}, mount |-> TRUE]>>]
BadTexture == [GoodTexture EXCEPT !.loadable = FALSE]
SimpleEnvs == {NoTexture, GoodTexture, BadTexture}

\* Every flag combination in the simple surroundings, and every surrounding
\* for two flag combinations.
MaterialInputs ==
    [dmat : [name : MaterialNames, flags : SUBSET MaterialFlags], env : SimpleEnvs]

EnvInputs(m) ==
    [dmat : [name : MaterialNames, flags : {{}, {"IFLMaterial"}}],
     env : [dirs : SeqsFromTo(DirChoices, 1, m), loadable : BOOLEAN,
            random : RandomDraws]]

MatNotRun == [status |-> "none"]

MatIdle ==
    /\ mat_arg = [dmat |-> [name |-> "", flags |-> {}], env |-> NoTexture]
    /\ mat_ret = MatNotRun

\* ---------------------------------------------------------------- shape inputs
\* shape.names: the names of the nodes, then of the objects, then of the
\* detail levels, then the name of the IFL sequence.
NodeNameIx(i) == i
ObjectNameIx(o) == MaxNodes + o
LodNameIx(j) == MaxNodes + MaxObjects + j
IflNameIx == MaxNodes + MaxObjects + MaxLods
ShapeNames == [k \in 1..(IflNameIx + 1) |-> "name" \o ToString(k - 1)]

Triangle == <<0, 1, 2>>
NullMesh == [type |-> "Null", indices |-> <<>>, primitives |-> <<>>]
\* A recognised mesh type other than Null and Standard.
SortedMesh == [type |-> "Sorted", indices |-> Triangle, primitives |-> <<>>]
StandardMesh(bits, material) ==
    [type |-> "Standard", indices |-> Triangle,
     primitives |-> <<[type |-> bits, material |-> material,
                       firstElement |-> 0, numElements |-> 3]>>]
PlainMesh == StandardMesh({"Indexed", "NoMaterial"}, 0)
\* A Standard mesh whose primitive lacks the Indexed bit.
UnindexedMesh == StandardMesh({"NoMaterial"}, 0)

PlainMaterial == [name |-> "red", flags |-> {}, env |-> NoTexture]
RootNode == [name |-> NodeNameIx(0), parent |-> -1]
FirstLod == [name |-> LodNameIx(0), objectDetail |-> 0]
ObjectOf(o, node, firstMesh, numMeshes) ==
    [name |-> ObjectNameIx(o), node |-> node, firstMesh |-> firstMesh,
     numMeshes |-> numMeshes]

\* The j-th IFL entry, for material slot `slot`.
IflEntry(slot, j) ==
    [slot |-> slot, name |-> IflNameIx, firstFrame |-> j, numFrames |-> j + 1,
     time |-> j + 2]

PlainShape ==
    [names |-> ShapeNames, materials |-> <<>>, iflmaterials |-> <<>>,
     nodes |-> <<RootNode>>, detail_levels |-> <<FirstLod>>,
     objects |-> <<ObjectOf(0, 0, 0, 1)>>, meshes |-> <<PlainMesh>>]

\* A shape with the materials ms and one IFL entry for each slot of `slots`.
MaterialShape(ms, slots) ==
    [PlainShape EXCEPT
        !.materials = ms,
        !.iflmaterials = [j \in 1..Len(slots) |-> IflEntry(slots[j], j - 1)],
        !.meshes = <<IF ms = <<>> THEN PlainMesh ELSE StandardMesh({"Indexed"}, 0)>>]

LoadMaterialChoices == [name : {"red"}, flags : {{}, {"IFLMaterial"}}, env : SimpleEnvs]

\* A shape with the parent array ps, whose object hangs on `node`.
NodeShape(ps, node) ==
    [PlainShape EXCEPT
        !.nodes = [i \in 1..Len(ps) |-> [name |-> NodeNameIx(i - 1), parent |-> ps[i]]],
        !.objects = <<ObjectOf(0, node, 0, 1)>>]

RECURSIVE Sum(_)
Sum(ns) == IF ns = <<>> THEN 0 ELSE Head(ns) + Sum(Tail(ns))

\* A shape with the meshes ms, shared out in consecutive ranges of ns[o]
\* meshes to object o, and one detail level for each objectDetail of ds.
ObjectShape(ms, ns, ds) ==
    [PlainShape EXCEPT
        !.materials = <<PlainMaterial>>,
        !.meshes = ms,
        !.objects = [o \in 1..Len(ns) |->
                        ObjectOf(o - 1, IF o = 1 THEN 0 ELSE -1,
                                 Sum(SubSeq(ns, 1, o - 1)), ns[o])],
        !.detail_levels = [j \in 1..Len(ds) |->
                             [name |-> LodNameIx(j - 1), objectDetail |-> ds[j]]]]

MeshChoices == {NullMesh, SortedMesh, StandardMesh({"Indexed"}, 0), UnindexedMesh}

\* The host before load: empty, or holding what an earlier import left.
FreshHost ==
    [materials |-> <<>>, meshes |-> <<>>, texts |-> <<>>, objects |-> <<>>,
     groups |-> <<>>]
UsedHost ==
    [materials |-> <<import_material(PlainMaterial, NoTexture).bmat>>,
     meshes |-> <<create_bmesh(PlainMesh, <<>>)>>,
     texts |-> ("NodeOrder" :> <<"stale">>),
     objects |-> <<[NewObject("stale", 1) EXCEPT !.scene = TRUE]>>,
     groups |-> <<[name |-> At(ShapeNames, LodNameIx(0)), objects |-> <<1>>]>>]

NoLocals == [materials |-> <<>>, lod_by_mesh |-> <<>>, node_obs |-> <<>>]

\* ---------------------------------------------------------------- SpecMaterial
MaterialInit ==
    /\ mat_arg \in MaterialInputs \/ mat_arg \in EnvInputs(MaxDirs)
    /\ mat_ret = MatNotRun
    /\ MeshIdle
    /\ LoadIdle

ImportMaterial ==
    /\ mat_ret.status = "none"
    /\ mat_ret' = import_material(mat_arg.dmat, mat_arg.env)
    /\ UNCHANGED <<mat_arg, meshVars, loadVars>>

MaterialNext == ImportMaterial

SpecMaterial == MaterialInit /\ [][MaterialNext]_vars

\* ---------------------------------------------------------------- claims on import_material
\* C4: blendMode follows the four-way priority: "both" when Additive and
\* Subtractive are both set, "additive" when only Additive is, "subtractive"
\* when only Subtractive is, "none" when Translucent is set and neither of
\* the two is, and not set when none of the three is.
C4_BlendPriority ==
    mat_ret.status = "ok" =>
        LET flags == mat_arg.dmat.flags
            props == mat_ret.bmat.props
            additive == "Additive" \in flags
            subtractive == "Subtractive" \in flags
            expected ==
                IF additive /\ subtractive THEN "both"
                ELSE IF additive THEN "additive"
                ELSE IF subtractive THEN "subtractive"
                ELSE IF "Translucent" \in flags THEN "none"
                ELSE ""
        IN IF expected = "" THEN "blendMode" \notin DOMAIN props
           ELSE "blendMode" \in DOMAIN props /\ props["blendMode"] = expected

\* ---------------------------------------------------------------- SpecMesh
\* A mesh of one primitive of any kind, or a mesh of several small ones.
MeshInit ==
    /\ \/ \E ib \in IndexBuffers : \E p \in AnyPrims(ib) :
             dmesh = [indices |-> ib, primitives |-> <<p>>]
       \/ \E ps \in SeqsUpTo(SmallPrims, MaxPrims) :
             dmesh = [indices |-> ExampleIndices, primitives |-> ps]
    /\ me = NotRun
    /\ MatIdle
    /\ LoadIdle

CreateBmesh ==
    /\ me.status = "none"
    /\ me' = create_bmesh(dmesh, MeshMaterials)
    /\ UNCHANGED <<dmesh, matVars, loadVars>>

MeshNext == CreateBmesh

SpecMesh == MeshInit /\ [][MeshNext]_vars

\* ---------------------------------------------------------------- SpecLoad
LoadInit ==
    /\ \/ \* shapes that vary in their materials and IFL entries
          /\ \E ms \in SeqsUpTo(LoadMaterialChoices, MaxMaterials) :
                \E slots \in SeqsUpTo(0..(Len(ms) - 1), MaxIfl) :
                    shape = MaterialShape(ms, slots)
          /\ node_mode = "EMPTY"
          /\ pre = FreshHost
       \/ \* shapes that vary in their nodes: every parent array over -1..N-1,
          \* also the ones that name a node not built yet
          /\ \E n \in 0..MaxNodes :
                \E ps \in [1..n -> -1..(n - 1)], node \in {-1, 0} :
                    shape = NodeShape(ps, node)
          /\ node_mode \in {"EMPTY", "ARMATURE", "BONE"}
          /\ pre \in {FreshHost, UsedHost}
       \/ \* shapes that vary in their objects, meshes and detail levels (for
          \* the first two mesh indices of an object, in any order and number)
          /\ \E ms \in SeqsUpTo(MeshChoices, MaxMeshes) :
                \E ns \in SeqsUpTo(0..Len(ms), MaxObjects),
                   ds \in SeqsUpTo({0, 1}, MaxLods) :
                    /\ Sum(ns) = Len(ms)
                    /\ shape = ObjectShape(ms, ns, ds)
          /\ node_mode = "EMPTY"
          /\ pre = UsedHost
    /\ bpy = pre
    /\ loc = NoLocals
    /\ pc = "materials"
    /\ result = ""
    /\ MeshIdle
    /\ MatIdle

LoadNext == LoadMaterials \/ LoadIfl \/ LoadNodeOrder \/ LoadNodes \/ LoadObjects

SpecLoad == LoadInit /\ [][LoadNext]_vars

Failed == result \notin {"", "FINISHED"}

\* load has aborted on a primitive without the Indexed bit, on an IFL entry
\* whose material lacks the IFL flag, or on a node whose parent is not built.
FatalAbort ==
    \/ pc = "objects" /\ result = "AssertionError"
    \/ pc = "ifl" /\ Failed
    \/ pc = "nodes" /\ Failed

\* C5: when load aborts with a fatal error, the host's materials, the
\* NodeOrder text, the scene's objects and the groups are what they were
\* before load was called.
C5_AbortLeavesNothing ==
    FatalAbort =>
        /\ bpy.materials = pre.materials
        /\ bpy.texts = pre.texts
        /\ {o \in 1..Len(bpy.objects) : bpy.objects[o].scene}
             = {o \in 1..Len(pre.objects) : pre.objects[o].scene}
        /\ \A o \in 1..Len(pre.objects) : bpy.objects[o] = pre.objects[o]
        /\ bpy.groups = pre.groups

\* ---------------------------------------------------------------- claims on load
MaterialsRan == pc # "materials" \/ result # ""
IflRan == pc \notin {"materials", "ifl"} \/ (pc = "ifl" /\ result # "")
NodesRan == pc \in {"objects", "done"} \/ (pc = "nodes" /\ result # "")

\* The texture search finds a file for material k and the image does not load.
TextureFails(k) ==
    /\ TextureSearch(At(shape.materials, k).env.dirs, 1).found_tex
    /\ ~At(shape.materials, k).env.loadable

\* C6: a material whose texture file is found but does not load still gets a
\* handle, with no texture image bound, and load goes on: once the material
\* section has run, every material of the shape is resolved.
C6_TextureFailureNonFatal ==
    MaterialsRan =>
        \A k \in 0..(Len(shape.materials) - 1) :
            /\ k \in DOMAIN loc.materials
            /\ TextureFails(k) =>
                 \A t \in 1..Len(bpy.materials[loc.materials[k]].texture_slots) :
                    ~bpy.materials[loc.materials[k]].texture_slots[t].image

\* The IFL entries (0-based) whose material lacks the IFL flag.
Unflagged ==
    {j \in 0..(Len(shape.iflmaterials) - 1) :
        "IFLMaterial" \notin At(shape.materials, At(shape.iflmaterials, j).slot).flags}

\* The IFL entries the loop got through: all of them, or those before the
\* first unflagged one.
Propagated ==
    {j \in 0..(Len(shape.iflmaterials) - 1) : \A u \in Unflagged : j < u}

\* C7: an IFL entry whose material lacks the IFL flag aborts load in the IFL
\* section, before any node or mesh is built; an entry whose material has the
\* flag copies iflName, iflFirstFrame, iflNumFrames and iflTime onto the
\* material's handle (the last such entry of a slot is the one that stays).
C7_IflIntegrity ==
    IflRan =>
        /\ Unflagged # {} =>
             /\ pc = "ifl"
             /\ Failed
             /\ bpy.objects = pre.objects
             /\ bpy.meshes = pre.meshes
             /\ loc.node_obs = <<>>
        /\ Unflagged = {} => pc # "ifl"
        /\ \A j \in Propagated :
             LET ifl == At(shape.iflmaterials, j)
                 props == bpy.materials[loc.materials[ifl.slot]].props
             IN (\A l \in Propagated : l > j => At(shape.iflmaterials, l).slot # ifl.slot)
                 => /\ {"iflName", "iflFirstFrame", "iflNumFrames", "iflTime"}
                        \subseteq DOMAIN props
                    /\ props["iflName"] = At(shape.names, ifl.name)
                    /\ props["iflFirstFrame"] = ifl.firstFrame
                    /\ props["iflNumFrames"] = ifl.numFrames
                    /\ props["iflTime"] = ifl.time

C7_Witness ==
    /\ pc = "ifl"
    /\ Failed
    /\ Propagated # {}
    /\ \E m \in 1..Len(bpy.materials) : "iflTime" \in DOMAIN bpy.materials[m].props

\* Every parent index is "none" or strictly less than the node's own index.
ValidParents ==
    \A i \in 0..(Len(shape.nodes) - 1) :
        LET parent == At(shape.nodes, i).parent
        IN parent = -1 \/ (0 <= parent /\ parent < i)

\* The objects created since load was called.
NewObjects == (Len(pre.objects) + 1)..Len(bpy.objects)

\* C8: for a valid parent array the EMPTY-mode builder creates exactly one
\* handle per node, in index order 0..N-1, and the handle of node i has as
\* parent the handle of node parent[i], or none when parent[i] is none.
C8_NodeForest ==
    (node_mode = "EMPTY" /\ ValidParents /\ NodesRan) =>
        /\ pc # "nodes"
        /\ Len(loc.node_obs) = Len(shape.nodes)
        /\ {o \in NewObjects : bpy.objects[o].data = None}
             = {At(loc.node_obs, i) : i \in 0..(Len(shape.nodes) - 1)}
        /\ \A i \in 0..(Len(shape.nodes) - 1) :
             LET node == At(shape.nodes, i)
                 ob == bpy.objects[At(loc.node_obs, i)]
             IN /\ At(loc.node_obs, i) = Len(pre.objects) + i + 1
                /\ ob.name = At(shape.names, node.name)
                /\ ob.scene
                /\ ob.parent = IF node.parent = -1 THEN None
                               ELSE At(loc.node_obs, node.parent)

C8_Witness ==
    /\ pc = "objects"
    /\ node_mode = "EMPTY"
    /\ ValidParents
    /\ Len(shape.nodes) = 3
    /\ At(shape.nodes, 1).parent = 0
    /\ At(shape.nodes, 2).parent = 0
    /\ Len(loc.node_obs) = 3

\* The (object, meshIndex) pairs of the Standard meshes, in the order load
\* visits them.
StandardOf(o) ==
    LET obj == At(shape.objects, o)
        std == {x \in 0..(obj.numMeshes - 1) :
                  At(shape.meshes, obj.firstMesh + x).type = "Standard"}
        nth[k \in 0..Cardinality(std)] ==
            IF k = 0 THEN -1 ELSE CHOOSE x \in std : x > nth[k - 1] /\
                                    \A y \in std : y > nth[k - 1] => x <= y
    IN [k \in 1..Cardinality(std) |-> [object |-> o, meshIndex |-> nth[k]]]

StandardMeshes == Flatten([o \in 1..Len(shape.objects) |-> StandardOf(o - 1)])

\* The mesh objects created since load was called, in creation order.
MeshObjects ==
    LET ids == {o \in NewObjects : bpy.objects[o].data # None}
        nth[k \in 0..Cardinality(ids)] ==
            IF k = 0 THEN 0 ELSE CHOOSE x \in ids : x > nth[k - 1] /\
                                   \A y \in ids : y > nth[k - 1] => x <= y
    IN [k \in 1..Cardinality(ids) |-> nth[k]]

\* How many times object `bobj` is linked in group g.
Links(g, bobj) ==
    Cardinality({x \in 1..Len(bpy.groups[g].objects) : bpy.groups[g].objects[x] = bobj})

OnePrim == dmesh.primitives[1]
Built == me.status = "ok"
Triples == [k \in 1..Len(me.faces) |-> me.faces[k].verts]
IsStrip(prim) == "Strip" \in prim.type
IsFan(prim) == "Fan" \in prim.type /\ "Strip" \notin prim.type
IsList(prim) == prim.type \cap {"Strip", "Fan"} = {}

StripExampleDecoded ==
    /\ Built
    /\ dmesh.indices = ExampleIndices
    /\ Len(dmesh.primitives) = 1
    /\ IsStrip(OnePrim)
    /\ OnePrim.firstElement = 0
    /\ OnePrim.numElements = 5

\* C1 as claimed: the Strip over [0,1,2,3,4] (firstElement 0, numElements 5)
\* appends exactly (2,1,0), (2,3,1), (4,3,2), in that order.
C1_StripExampleAsClaimed ==
    StripExampleDecoded => Triples = <<<<2, 1, 0>>, <<2, 3, 1>>, <<4, 3, 2>>>>

\* C1 amended: the Strip over [0,1,2,3,4] (firstElement 0, numElements 5)
\* appends exactly (2,1,0), (1,2,3), (4,3,2), in that order: the odd step
\* emits (idx[i-2], idx[i-1], idx[i]).
C1_StripExample ==
    StripExampleDecoded => Triples = <<<<2, 1, 0>>, <<1, 2, 3>>, <<4, 3, 2>>>>

C1_Witness == StripExampleDecoded /\ Len(me.faces) = 3

\* The buffer positions a primitive's range covers, and the values stored there.
RangeValues(mesh, prim) ==
    {At(mesh.indices, p) :
        p \in prim.firstElement..(prim.firstElement + prim.numElements - 1)}

\* C2: every triangle of a Fan primitive has the pivot indices[firstElement] as
\* the third vertex of an even step and the first vertex of an odd step, and no
\* triangle reads the index buffer outside [firstElement, firstElement+numElements-1].
C2_FanPivot ==
    (Built /\ Len(dmesh.primitives) = 1 /\ IsFan(OnePrim)) =>
        \A k \in 1..Len(me.faces) :
            /\ IF k % 2 = 1
               THEN Triples[k][3] = At(dmesh.indices, OnePrim.firstElement)
               ELSE Triples[k][1] = At(dmesh.indices, OnePrim.firstElement)
            /\ \A j \in 1..3 : Triples[k][j] \in RangeValues(dmesh, OnePrim)

\* C3: a Strip or Fan primitive of N >= 2 elements emits exactly N-2 triangles;
\* a TriangleList of N elements, N a multiple of 3, emits exactly N/3 triangles,
\* the k-th being (indices[i], indices[i-1], indices[i-2]) for
\* i = firstElement+2, firstElement+5, ...
C3_TriangleCounts ==
    (Built /\ Len(dmesh.primitives) = 1) =>
        LET N == OnePrim.numElements
            first == OnePrim.firstElement
        IN /\ (~IsList(OnePrim) /\ N >= 2) => Len(me.faces) = N - 2
           /\ (IsList(OnePrim) /\ N % 3 = 0) =>
                /\ Len(me.faces) = N \div 3
                /\ \A k \in 1..Len(me.faces) :
                     LET i == first + 2 + 3 * (k - 1)
                     IN Triples[k] = <<At(dmesh.indices, i), At(dmesh.indices, i - 1),
                                       At(dmesh.indices, i - 2)>>

C3_Witness ==
    /\ Built
    /\ Len(dmesh.primitives) = 1
    /\ IsList(OnePrim)
    /\ OnePrim.numElements = 12
    /\ OnePrim.firstElement > 0
    /\ Len(me.faces) = 4

\* The distinct materials of a primitive sequence, in first-seen order.
RECURSIVE FirstSeen(_, _)
FirstSeen(prims, seen) ==
    IF prims = <<>> THEN <<>>
    ELSE LET m == PrimMaterial(Head(prims))
         IN IF m = None \/ m \in seen THEN FirstSeen(Tail(prims), seen)
            ELSE <<m>> \o FirstSeen(Tail(prims), seen \cup {m})

\* For every triangle, in decode order, the material of the primitive it came from.
ProducerMaterials ==
    Flatten([p \in 1..Len(dmesh.primitives) |->
        [k \in 1..Len(PrimFaces(dmesh.indices, dmesh.primitives[p], None)) |->
            PrimMaterial(dmesh.primitives[p])]])

\* C9: the slot list holds each distinct material used exactly once, in
\* first-seen order; a triangle of a primitive with material m has
\* material_index equal to m's position in the slot list; a triangle of a
\* NoMaterial primitive has a material_index that is no material's slot.
C9_MaterialSlots ==
    Built =>
        LET used == FirstSeen(dmesh.primitives, {})
        IN /\ me.materials = [s \in 1..Len(used) |-> MeshMaterials[used[s]]]
           /\ Len(me.polygons) = Len(ProducerMaterials)
           /\ \A i \in 1..Len(me.polygons) :
                LET m == ProducerMaterials[i]
                    slot == me.polygons[i].material_index
                IN IF m # None
                   THEN /\ slot \in 0..(Len(used) - 1)
                        /\ At(used, slot) = m
                   ELSE slot \notin 0..(Len(used) - 1)

====
